---- MODULE Spec2Model ----
(***************************************************************************)
(* Model of src/src/lib.rs (rust-sgp4): the function                       *)
(*     pub fn propagate(tle: tle::TLE, time: f64) -> coordinates::TEME     *)
(* and a caller that invokes it repeatedly on element sets.                *)
(*                                                                         *)
(* f64 values are modelled as decimal floating-point numbers with a six    *)
(* digit mantissa, together with the IEEE special values the arithmetic of *)
(* propagate can produce (infinities and NaN).  Every arithmetic operator  *)
(* rounds its result to six significant digits.  Zero is unsigned.         *)
(*                                                                         *)
(* propagate keeps nothing between calls.  The variables record what the   *)
(* calls did: the values they returned and the locals they computed.       *)
(***************************************************************************)
EXTENDS Integers, Sequences, FiniteSets, TLC

VARIABLES
    history,      \* the calls of propagate so far: arguments and returned value
    derivations,  \* per element set, how often the body of propagate ran on it
    locals        \* per element set, the locals of the last call on it

vars == <<history, derivations, locals>>

-----------------------------------------------------------------------------
(* f64: representation *)

\* Mantissa of a normalised number m satisfies Lo <= |m| < Hi.
Lo == 10 * 10 * 10 * 10 * 10
Hi == 10 * Lo
Half == 10 * 10 * 10

\* Largest and smallest decimal exponent of a finite nonzero f64.
MaxExp10 == 308
MinExp10 == 0 - 324

NaN == [k |-> "nan", m |-> 0, x |-> 0]
Zero == [k |-> "num", m |-> 0, x |-> 0]
Inf(sg) == [k |-> "inf", m |-> sg, x |-> 0]

Abs(i) == IF i < 0 THEN 0 - i ELSE i
Sgn(i) == IF i < 0 THEN 0 - 1 ELSE IF i = 0 THEN 0 ELSE 1

RECURSIVE Pow10(_)
Pow10(k) == IF k <= 0 THEN 1 ELSE 10 * Pow10(k - 1)

\* Bring a magnitude into [Lo, Hi), rounding to nearest when digits are dropped.
RECURSIVE Norm(_, _)
Norm(mag, x) ==
    IF mag = 0 THEN [m |-> 0, x |-> 0]
    ELSE IF mag >= Hi THEN Norm((mag + 5) \div 10, x + 1)
    ELSE IF mag < Lo THEN Norm(mag * 10, x - 1)
    ELSE [m |-> mag, x |-> x]

\* A normalised magnitude with its sign (overflow to infinity, underflow to 0).
Pack(sg, n) ==
    IF n.m = 0 \/ sg = 0 THEN Zero
    ELSE IF n.x + 5 > MaxExp10 THEN Inf(sg)
    ELSE IF n.x + 5 < MinExp10 THEN Zero
    ELSE [k |-> "num", m |-> sg * n.m, x |-> n.x]

\* The f64 nearest to sg * mag * 10^x.  (The set binds a value that is
\* computed once and used several times; so do the sets below.)
Mk(sg, mag, x) == CHOOSE r \in {Pack(sg, n) : n \in {Norm(mag, x)}} : TRUE

\* A literal: m * 10^x.
F(m, x) == Mk(Sgn(m), Abs(m), x)

IsNaN(a) == a.k = "nan"
IsInf(a) == a.k = "inf"
IsNum(a) == a.k = "num"
IsZero(a) == a.k = "num" /\ a.m = 0
SignOf(a) == Sgn(a.m)

-----------------------------------------------------------------------------
(* f64: arithmetic.  XVal works on values; FX evaluates its operands once. *)

NegVal(a) == IF IsNaN(a) THEN NaN ELSE [a EXCEPT !.m = 0 - a.m]

\* f64 unary -
FNeg(a) == CHOOSE r \in {NegVal(x) : x \in {a}} : TRUE

\* Addition of two finite nonzero numbers, a having the larger exponent.
AddAligned(a, b) ==
    LET diff == a.x - b.x
        g == IF diff < 3 THEN diff ELSE 3
        big == a.m * Pow10(g)
        small == Sgn(b.m) * (Abs(b.m) \div Pow10(diff - g))
    IN  IF diff > 9 THEN a
        ELSE CHOOSE r \in {Mk(Sgn(sum), Abs(sum), a.x - g) : sum \in {big + small}} : TRUE

AddVal(a, b) ==
    IF IsNaN(a) \/ IsNaN(b) THEN NaN
    ELSE IF IsInf(a) /\ IsInf(b) THEN (IF a.m = b.m THEN a ELSE NaN)
    ELSE IF IsInf(a) THEN a
    ELSE IF IsInf(b) THEN b
    ELSE IF IsZero(a) THEN b
    ELSE IF IsZero(b) THEN a
    ELSE IF a.x >= b.x THEN AddAligned(a, b)
    ELSE AddAligned(b, a)

\* f64 +
FAdd(a, b) == CHOOSE r \in {AddVal(x, y) : x \in {a}, y \in {b}} : TRUE

\* f64 -
FSub(a, b) == CHOOSE r \in {AddVal(x, NegVal(y)) : x \in {a}, y \in {b}} : TRUE

MulVal(a, b) ==
    IF IsNaN(a) \/ IsNaN(b) THEN NaN
    ELSE IF (IsInf(a) /\ IsZero(b)) \/ (IsZero(a) /\ IsInf(b)) THEN NaN
    ELSE IF IsInf(a) \/ IsInf(b) THEN Inf(SignOf(a) * SignOf(b))
    ELSE IF IsZero(a) \/ IsZero(b) THEN Zero
    ELSE LET ma == Abs(a.m)
             mb == Abs(b.m)
             ah == ma \div Half
             al == ma % Half
             bh == mb \div Half
             bl == mb % Half
             \* (ma * mb) \div Half, computed without leaving 32 bits
             p == ah * bh * Half + ah * bl + al * bh + ((al * bl) \div Half)
         IN  Mk(SignOf(a) * SignOf(b), p, a.x + b.x + 3)

\* f64 *
FMul(a, b) == CHOOSE r \in {MulVal(x, y) : x \in {a}, y \in {b}} : TRUE

\* The integer quotient (r * 10^digits) \div d, by long division.
RECURSIVE LongDiv(_, _, _)
LongDiv(r, d, digits) ==
    IF digits = 0 THEN r \div d
    ELSE (r \div d) * Pow10(digits) + LongDiv((r % d) * 10, d, digits - 1)

DivVal(a, b) ==
    IF IsNaN(a) \/ IsNaN(b) THEN NaN
    ELSE IF IsInf(a) /\ IsInf(b) THEN NaN
    ELSE IF IsInf(a) THEN Inf(IF IsZero(b) THEN a.m ELSE a.m * SignOf(b))
    ELSE IF IsInf(b) THEN Zero
    ELSE IF IsZero(b) THEN (IF IsZero(a) THEN NaN ELSE Inf(SignOf(a)))
    ELSE IF IsZero(a) THEN Zero
    ELSE Mk(SignOf(a) * SignOf(b), LongDiv(Abs(a.m), Abs(b.m), 6), a.x - b.x - 6)

\* f64 /
FDiv(a, b) == CHOOSE r \in {DivVal(x, y) : x \in {a}, y \in {b}} : TRUE

LtVal(a, b) ==
    /\ ~IsNaN(a)
    /\ ~IsNaN(b)
    /\ a # b
    /\ \E d \in {AddVal(b, NegVal(a))} : ~IsNaN(d) /\ SignOf(d) > 0

\* f64 <: false when either side is NaN.
FLt(a, b) == \E x \in {a}, y \in {b} : LtVal(x, y)

RECURSIVE PowiVal(_, _)
PowiVal(a, k) == IF k = 0 THEN F(1, 0) ELSE FMul(a, PowiVal(a, k - 1))

\* f64::powi
FPowi(a, k) == CHOOSE r \in {PowiVal(x, k) : x \in {a}} : TRUE

\* Newton iteration for the square root of a finite positive number.
RECURSIVE SqrtIter(_, _, _)
SqrtIter(a, y, k) ==
    IF k = 0 THEN y
    ELSE CHOOSE r \in {IF next = y THEN y ELSE SqrtIter(a, next, k - 1) :
                       next \in {FDiv(FAdd(y, DivVal(a, y)), F(2, 0))}} : TRUE

SqrtVal(a) ==
    IF IsNaN(a) THEN NaN
    ELSE IF IsZero(a) THEN Zero
    ELSE IF SignOf(a) < 0 THEN NaN
    ELSE IF IsInf(a) THEN a
    ELSE SqrtIter(a, [k |-> "num", m |-> 3 * Lo, x |-> ((a.x + 5) \div 2) - 5], 12)

\* f64::sqrt
FSqrt(a) == CHOOSE r \in {SqrtVal(x) : x \in {a}} : TRUE

\* Newton iteration for the cube root of a finite positive number.
RECURSIVE CbrtIter(_, _, _)
CbrtIter(a, y, k) ==
    IF k = 0 THEN y
    ELSE CHOOSE r \in {IF next = y THEN y ELSE CbrtIter(a, next, k - 1) :
                       next \in {FDiv(FAdd(MulVal(F(2, 0), y), FDiv(a, MulVal(y, y))),
                                      F(3, 0))}} : TRUE

CbrtVal(a) ==
    CbrtIter(a, [k |-> "num", m |-> 2 * Lo, x |-> ((a.x + 5) \div 3) - 5], 24)

PowfTwoThirdsVal(a) ==
    IF IsNaN(a) THEN NaN
    ELSE IF IsZero(a) THEN Zero
    ELSE IF SignOf(a) < 0 THEN NaN
    ELSE IF IsInf(a) THEN a
    ELSE CHOOSE r \in {MulVal(c, c) : c \in {CbrtVal(a)}} : TRUE

\* f64::powf(2.0/3.0)
FPowfTwoThirds(a) == CHOOSE r \in {PowfTwoThirdsVal(x) : x \in {a}} : TRUE

PowfThreeHalvesVal(a) ==
    IF IsNaN(a) THEN NaN
    ELSE IF IsZero(a) THEN Zero
    ELSE IF SignOf(a) < 0 THEN NaN
    ELSE IF IsInf(a) THEN a
    ELSE FMul(a, SqrtVal(a))

\* f64::powf(3.0/2.0)
FPowfThreeHalves(a) == CHOOSE r \in {PowfThreeHalvesVal(x) : x \in {a}} : TRUE

PowfMinusSevenHalvesVal(a) ==
    IF IsNaN(a) THEN NaN
    ELSE IF IsZero(a) THEN Inf(1)
    ELSE IF SignOf(a) < 0 THEN NaN
    ELSE IF IsInf(a) THEN Zero
    ELSE FDiv(F(1, 0), FMul(PowiVal(a, 3), SqrtVal(a)))

\* f64::powf(-7.0/2.0)
FPowfMinusSevenHalves(a) == CHOOSE r \in {PowfMinusSevenHalvesVal(x) : x \in {a}} : TRUE

\* Partial sum of the cosine series: term is the current term, x2 = x * x.
RECURSIVE CosSeries(_, _, _, _)
CosSeries(term, x2, j, left) ==
    IF left = 0 \/ IsZero(term) THEN Zero
    ELSE CHOOSE r \in {FAdd(term, CosSeries(next, x2, j + 1, left - 1)) :
                       next \in {FNeg(FDiv(MulVal(term, x2),
                                           F((2 * j + 1) * (2 * j + 2), 0)))}} : TRUE

CosVal(a) ==
    IF IsNaN(a) \/ IsInf(a) THEN NaN
    ELSE CHOOSE r \in {CosSeries(F(1, 0), x2, 0, 14) : x2 \in {MulVal(a, a)}} : TRUE

\* f64::cos, for arguments within a few radians of zero.
FCos(a) == CHOOSE r \in {CosVal(x) : x \in {a}} : TRUE

-----------------------------------------------------------------------------
(* Constants of lib.rs *)

ke == F(743669161, 0 - 10)
k2 == F(5413080, 0 - 10)
RE == F(1, 0)
XKMPER == F(6378135, 0 - 3)
S == F(101222928, 0 - 8)
qs4 == F(188027916, 0 - 17)

-----------------------------------------------------------------------------
(* propagate *)

\* delta1 and delta0: 3 k2 (3 cos^2 i0 - 1) / (2 a^2 (1 - e0^2)^(3/2)).
delta(cos2_i0, a, e02) ==
    FDiv(FMul(FMul(F(3, 0), k2), FSub(FMul(F(3, 0), cos2_i0), F(1, 0))),
         FMul(FMul(FMul(F(2, 0), a), a), FPowfThreeHalves(FSub(F(1, 0), e02))))

\* a0 = a1 (1 - d1/3 - d1^2 - 134 d1^3 / 81)
a0(a1, d1) ==
    FMul(a1,
         FSub(FSub(FSub(F(1, 0), FDiv(d1, F(3, 0))), FMul(d1, d1)),
              FDiv(FMul(FMul(FMul(F(134, 0), d1), d1), d1), F(81, 0))))

\* Section 2: (ao_dp (1 - e0) - RE) XKMPER
perigee(ao_dp, e0) ==
    FMul(FSub(FMul(ao_dp, FSub(F(1, 0), e0)), RE), XKMPER)

\* Section 2: (ao_dp (1 + e0) - RE) XKMPER
apogee(ao_dp, e0) ==
    FMul(FSub(FMul(ao_dp, FAdd(F(1, 0), e0)), RE), XKMPER)

\* The value a mutable S would hold if every call stored its s back into it.
StoredS ==
    IF history = <<>> THEN S ELSE locals[history[Len(history)].tle].s

\* s, had the constant S been a mutable static overwritten by each call.
s_overwriting(perigee_km, ao_dp, e0) ==
    IF FLt(perigee_km, F(156, 0))
    THEN FAdd(FSub(FMul(ao_dp, FSub(F(1, 0), e0)), StoredS), RE)
    ELSE IF FLt(perigee_km, F(98, 0))
    THEN FAdd(FDiv(F(20, 0), XKMPER), RE)
    ELSE StoredS

\* Section 3: the parameter "s" chosen from the perigee of the satellite.
s(perigee_km, ao_dp, e0) ==
    IF FLt(perigee_km, F(156, 0))
    THEN FAdd(FSub(FMul(ao_dp, FSub(F(1, 0), e0)), S), RE)
    ELSE IF FLt(perigee_km, F(98, 0))
    THEN FAdd(FDiv(F(20, 0), XKMPER), RE)
    ELSE S

\* Section 3: the coefficient C2; l.n is eta, l.O2 is cos^2 i0.
C2(l) ==
    FMul(FMul(FMul(FMul(qs4, l.xi4), l.n0_dp),
              FPowfMinusSevenHalves(FSub(F(1, 0), l.n2))),
         FAdd(FMul(l.ao_dp,
                   FAdd(FAdd(FAdd(F(1, 0), FMul(F(15, 0 - 1), l.n2)),
                             FMul(FMul(F(4, 0), l.e0), l.n)),
                        FMul(l.e0, l.n3))),
              FMul(FMul(FDiv(FMul(F(15, 0 - 1), FMul(k2, l.xi)),
                             FSub(F(1, 0), l.n2)),
                        FAdd(F(0 - 5, 0 - 1), FMul(F(15, 0 - 1), l.O2))),
                   FAdd(FAdd(F(8, 0), FMul(F(24, 0), l.n2)),
                        FMul(F(3, 0), l.n4)))))

\* The locals of propagate before its first statement: none is assigned.
Unassigned ==
    [k |-> "locals", n0 |-> NaN, i0 |-> NaN, e0 |-> NaN,
     cos_i0 |-> NaN, cos2_i0 |-> NaN, e02 |-> NaN,
     a1 |-> NaN, d1 |-> NaN, a0 |-> NaN, d0 |-> NaN,
     n0_dp |-> NaN, ao_dp |-> NaN, perigee |-> NaN, apogee |-> NaN,
     s |-> NaN, O |-> NaN, O2 |-> NaN, xi |-> NaN, xi4 |-> NaN, B |-> NaN,
     n |-> NaN, n2 |-> NaN, n3 |-> NaN, n4 |-> NaN, C2 |-> NaN]

\* Number of let statements in propagate.
LastStatement == 25

\* The pc-th let statement of propagate, run on the locals l.
Statement(tle, l, pc) ==
    CASE pc = 1 -> [l EXCEPT !.n0 = tle.mean_motion]
      [] pc = 2 -> [l EXCEPT !.i0 = tle.i]
      [] pc = 3 -> [l EXCEPT !.e0 = tle.e]
      [] pc = 4 -> [l EXCEPT !.cos_i0 = FCos(l.i0)]
      [] pc = 5 -> [l EXCEPT !.cos2_i0 = FMul(l.cos_i0, l.cos_i0)]
      [] pc = 6 -> [l EXCEPT !.e02 = FMul(l.e0, l.e0)]
      [] pc = 7 -> [l EXCEPT !.a1 = FPowfTwoThirds(FDiv(ke, l.n0))]
      [] pc = 8 -> [l EXCEPT !.d1 = delta(l.cos2_i0, l.a1, l.e02)]
      [] pc = 9 -> [l EXCEPT !.a0 = a0(l.a1, l.d1)]
      [] pc = 10 -> [l EXCEPT !.d0 = delta(l.cos2_i0, l.a0, l.e02)]
      [] pc = 11 -> [l EXCEPT !.n0_dp = FDiv(l.n0, FAdd(F(1, 0), l.d0))]
      [] pc = 12 -> [l EXCEPT !.ao_dp = FDiv(l.a0, FSub(F(1, 0), l.d0))]
      [] pc = 13 -> [l EXCEPT !.perigee = perigee(l.ao_dp, l.e0)]
      [] pc = 14 -> [l EXCEPT !.apogee = apogee(l.ao_dp, l.e0)]
      [] pc = 15 -> [l EXCEPT !.s = s(l.perigee, l.ao_dp, l.e0)]
      [] pc = 16 -> [l EXCEPT !.O = l.cos_i0]
      [] pc = 17 -> [l EXCEPT !.O2 = FMul(l.O, l.O)]
      [] pc = 18 -> [l EXCEPT !.xi = FDiv(F(1, 0), FSub(l.ao_dp, l.s))]
      [] pc = 19 -> [l EXCEPT !.xi4 = FPowi(l.xi, 4)]
      [] pc = 20 -> [l EXCEPT !.B = FSqrt(FSub(F(1, 0), l.e02))]
      [] pc = 21 -> [l EXCEPT !.n = FMul(FMul(l.ao_dp, l.e0), l.xi)]
      [] pc = 22 -> [l EXCEPT !.n2 = FPowi(l.n, 2)]
      [] pc = 23 -> [l EXCEPT !.n3 = FPowi(l.n, 3)]
      [] pc = 24 -> [l EXCEPT !.n4 = FPowi(l.n, 4)]
      [] pc = 25 -> [l EXCEPT !.C2 = C2(l)]

\* The statements pc .. LastStatement, run in order on the locals l.
RECURSIVE Run(_, _, _)
Run(tle, l, pc) ==
    IF pc > LastStatement THEN l
    ELSE CHOOSE r \in {Run(tle, next, pc + 1) : next \in {Statement(tle, l, pc)}} : TRUE

\* The local variables of propagate when it reaches its return expression.
Locals(tle) == Run(tle, Unassigned, 1)

\* propagate, had it returned a coordinate computed from its time argument.
propagate_from_time(tle, time) ==
    [kind |-> "TEME", X |-> time, Y |-> F(0, 0), Z |-> F(0, 0)]

\* propagate, had it kept a count of its calls and let it into its result.
propagate_counting(tle, time) ==
    [kind |-> "TEME", X |-> F(Len(history), 0), Y |-> F(0, 0), Z |-> F(0, 0)]

\* The value propagate returns: its return type is TEME, never an error.
propagate(tle, time) ==
    [kind |-> "TEME", X |-> F(0, 0), Y |-> F(0, 0), Z |-> F(0, 0)]

-----------------------------------------------------------------------------
(* The caller: element sets, times, and calls of propagate *)

\* Bound on the number of calls in a behaviour.
MaxCalls == 3

\* A TLE, reduced to the fields propagate reads.
TLE(mean_motion, i, e) == [mean_motion |-> mean_motion, i |-> i, e |-> e]

\* Inclination of the test satellite 88888: 72.8435 degrees, in radians.
Incl88888 == F(1271359, 0 - 6)

\* Satellite 88888 of the test, mean motion in radians per minute.
Sat88888 == TLE(F(700666, 0 - 7), Incl88888, F(86731, 0 - 7))
\* Satellite 88888 of the test, mean motion as printed in the TLE (rev/day).
Sat88888RevDay == TLE(F(160582452, 0 - 7), Incl88888, F(86731, 0 - 7))
\* Perigee near 80 km.
SatLowPerigee == TLE(F(72, 0 - 3), Incl88888, F(86731, 0 - 7))
\* Perigee near 134 km.
SatMidPerigee == TLE(F(715, 0 - 4), Incl88888, F(5, 0 - 3))
\* A 24 hour orbit.
SatDeepSpace == TLE(F(4375, 0 - 6), F(1, 0 - 1), F(2, 0 - 1))
\* Element sets outside the physical range.
SatNegativeE == TLE(F(700666, 0 - 7), Incl88888, F(0 - 5, 0 - 1))
SatParabolic == TLE(F(700666, 0 - 7), Incl88888, F(1, 0))
SatZeroMotion == TLE(F(0, 0), Incl88888, F(86731, 0 - 7))
SatNegativeMotion == TLE(F(0 - 7, 0 - 2), Incl88888, F(86731, 0 - 7))

Elements ==
    {Sat88888, Sat88888RevDay, SatLowPerigee, SatMidPerigee, SatDeepSpace,
     SatNegativeE, SatParabolic, SatZeroMotion, SatNegativeMotion}

\* Times since epoch, in minutes.
Times == {F(0, 0), F(360, 0)}

NotComputed == [k |-> "none"]

\* The locals propagate computes, tabulated by element set.
LocalsOf == [e \in Elements |-> Locals(e)]

Init ==
    /\ history = <<>>
    /\ derivations = [e \in Elements |-> 0]
    /\ locals = [e \in Elements |-> NotComputed]

\* One call propagate(tle, time): the body runs from its first line to the
\* return expression, whatever was called before.
Propagate(tle, time) ==
    /\ Len(history) < MaxCalls
    /\ history' = Append(history,
                         [tle |-> tle, time |-> time,
                          result |-> propagate(tle, time)])
    /\ derivations' = [derivations EXCEPT ![tle] = @ + 1]
    /\ locals' = [locals EXCEPT ![tle] = LocalsOf[tle]]

Next == \E tle \in Elements, time \in Times : Propagate(tle, time)

Spec == Init /\ [][Next]_vars

-----------------------------------------------------------------------------
(* Properties *)

Calls == DOMAIN history
Computed(e) == locals[e].k = "locals"
ZeroTEME == [kind |-> "TEME", X |-> F(0, 0), Y |-> F(0, 0), Z |-> F(0, 0)]

\* The element set of SPACETRACK REPORT NO. 3, in either unit of mean motion.
ReferenceSets == {Sat88888, Sat88888RevDay}

\* |a| and a <= b on f64 values, as the claims use them.
AbsVal(a) == IF IsNaN(a) THEN NaN ELSE [a EXCEPT !.m = Abs(a.m)]
FAbs(a) == CHOOSE r \in {AbsVal(x) : x \in {a}} : TRUE
FLe(a, b) == \E x \in {a}, y \in {b} : ~IsNaN(x) /\ ~IsNaN(y) /\ (x = y \/ LtVal(x, y))

\* |a - b| < tol
Approx(a, b, tol) == FLt(FAbs(FSub(a, b)), tol)

\* 1 - e0^2 <= 0 or n0 <= 0
Degenerate(tle) ==
    \/ FLe(FSub(F(1, 0), FMul(tle.e, tle.e)), F(0, 0))
    \/ FLe(tle.mean_motion, F(0, 0))

\* |eta| >= 1 in the locals of the last call on e
Singular(e) == Computed(e) /\ FLe(F(1, 0), FAbs(locals[e].n))

C2_ReferencePosition ==
    \A i \in Calls :
        (history[i].tle \in ReferenceSets /\ history[i].time = F(0, 0))
        => /\ history[i].result.kind = "TEME"
           /\ Approx(history[i].result.X, F(232897, 0 - 2), F(1, 0))
           /\ Approx(history[i].result.Y, F(0 - 599522, 0 - 2), F(1, 0))
           /\ Approx(history[i].result.Z, F(171997, 0 - 2), F(1, 0))

\* C3: any two calls of propagate with the same element set and the same time
\* return the same value, whatever was called before or between them.
C3_Deterministic ==
    \A i, j \in Calls :
        (history[i].tle = history[j].tle /\ history[i].time = history[j].time)
        => history[i].result = history[j].result

\* Two calls with the same arguments, separated by a call with other arguments.
C3_Witness ==
    \E i, m, j \in Calls :
        /\ i < m /\ m < j
        /\ history[i].tle = history[j].tle /\ history[i].time = history[j].time
        /\ history[m].tle # history[i].tle /\ history[m].time # history[i].time

\* C4: once a call has met the singularity |eta| >= 1 (the record has entered
\* Error), every later call on that element set fails with that same error.
C4_ErrorAbsorbing ==
    \A i, j \in Calls :
        (i < j /\ history[i].tle = history[j].tle /\ Singular(history[i].tle))
        => history[j].result.kind = "NumericalInstability"

\* C5: a call whose element set has 1 - e0^2 <= 0 or n0 <= 0 fails with
\* InvalidElement and returns no coordinates.
C5_InvalidElement ==
    \A i \in Calls :
        Degenerate(history[i].tle) => history[i].result.kind = "InvalidElement"

\* C6: a call whose eta = a0'' e0 xi has |eta| >= 1 fails with
\* NumericalInstability and returns no coordinates.
C6_NumericalInstability ==
    \A i \in Calls :
        Singular(history[i].tle) => history[i].result.kind = "NumericalInstability"

\* C7: the mean elements and coefficients of one element set are derived at
\* most once over any sequence of propagate calls.
C7_DerivedOnce == \A e \in Elements : derivations[e] <= 1

ClaimedS(l) ==
    IF FLt(l.perigee, F(98, 0)) THEN FAdd(FDiv(F(20, 0), XKMPER), RE)
    ELSE IF FLt(l.perigee, F(156, 0))
    THEN FAdd(FSub(FMul(l.ao_dp, FSub(F(1, 0), l.e0)), S), RE)
    ELSE S

\* C9: s is 20/XKMPER + RE when perigee < 98 km, a0''(1 - e0) - S + RE when
\* 98 <= perigee < 156 km, and S otherwise.
C9_SelectionOfS ==
    \A e \in Elements : Computed(e) => locals[e].s = ClaimedS(locals[e])

====
